---- MODULE Spec2Model ----
(***************************************************************************)
(* Sailing simulator (src/src/main.rs): the Bevy app's Update schedule,    *)
(* its components, resources and the reset event.                          *)
(*                                                                         *)
(* Numbers.  f32 quantities are fixed-point integers: lengths and speeds   *)
(* in whole units, time in 1/DtDen seconds, angles in 1/AngRes of a        *)
(* revolution (so rotations act exactly on the integer lattice).  Every    *)
(* assignment of the source is computed with exact integer numerators and  *)
(* one truncating division at the store.                                   *)
(*                                                                         *)
(* Scheduling.  main() orders only sys_wind_physics before                 *)
(* sys_apply_velocity (.chain()); every other pair of Update systems is    *)
(* unordered, so a frame runs the systems in any order that respects that  *)
(* one edge.  sys_draw_debug_gizmos and sys_mouse_track touch none of the  *)
(* state below and are left out.                                           *)
(***************************************************************************)
EXTENDS Integers, Sequences, FiniteSets, TLC

VARIABLES
    Transform,          \* component: entity -> [x, y, rot] (local transform)
    GlobalTransform,    \* component: entity -> [x, y, rot], as of the last propagation
    Velocity,           \* component: entity -> [x, y]
    TurnRadius,         \* component: entity -> [inf, r]
    InitialTransform,   \* component: entity -> [x, y, rot]
    Sail,               \* component: entity -> [drag_num, drag_den] (drag_coefficient)
    ChildOf,            \* relationship: child entity -> parent entity
    Wind,               \* resource: [x, y]
    constants,          \* resource: Constants
    events_a,           \* Events<EventResetTransform>: the older buffer (frame stamps)
    events_b,           \* Events<EventResetTransform>: the newer buffer (frame stamps)
    last_event_count,   \* sys_reset_xf's EventReader cursor: events of a \o b already read
    keys,               \* ButtonInput<KeyCode> as sys_input last read it
    dt,                 \* Time::delta_secs() of the frame, in 1/DtDen s
    frame,              \* number of the frame being run
    ran,                \* Update systems that have run in this frame
    lastSys,            \* the system whose step produced this state
    resetActed,         \* sys_reset_xf overwrote the entities in this frame
    resetCause,         \* frame stamp of the event sys_reset_xf read in this frame (0: none)
    resetDirty,         \* the overwrite of this frame changed some Transform or Velocity
    written,            \* sys_input wrote an event in this frame
    writes,             \* events written so far
    resets,             \* reset actions taken so far
    env                 \* what the run draws from: frame times, key states, steps explored

vars == <<Transform, GlobalTransform, Velocity, TurnRadius, InitialTransform, Sail,
          ChildOf, Wind, constants, events_a, events_b, last_event_count, keys, dt,
          frame, ran, lastSys, resetActed, resetCause, resetDirty, written, writes,
          resets, env>>

----------------------------------------------------------------------------
(* Bounds of the exploration *)

\* steps explored (a frame is six system steps and one frame boundary)
MaxSteps == 13
\* steps explored where only the reset key is played (four frames)
MaxEventSteps == 27
\* a new frame is started only while every speed component is within this
MaxSpeed == 64
\* a new frame is started only while every wind component is within this
MaxWind == 230

(* Resolutions of the fixed-point representation *)

\* time is counted in 1/DtDen seconds
DtDen == 4
\* angles are counted in 1/AngRes revolutions (2*PI radians = AngRes)
AngRes == 4
\* frame times drawn: 0 s, 0.75 s, 4 s
DtSet == {0, 3, 16}

----------------------------------------------------------------------------
(* Vec2 arithmetic *)

Abs(a) == IF a < 0 THEN -a ELSE a

\* division rounding toward zero, as a store of a real quotient to the lattice
TDiv(a, b) == IF (a < 0) = (b < 0) THEN Abs(a) \div Abs(b) ELSE -(Abs(a) \div Abs(b))

Vec2(x, y) == [x |-> x, y |-> y]

ZERO == Vec2(0, 0)

VAdd(a, b) == Vec2(a.x + b.x, a.y + b.y)

VSub(a, b) == Vec2(a.x - b.x, a.y - b.y)

VScale(k, a) == Vec2(k * a.x, k * a.y)

VDiv(a, d) == Vec2(TDiv(a.x, d), TDiv(a.y, d))

Dot(a, b) == a.x * b.x + a.y * b.y

RECURSIVE IsqrtFrom(_, _)
IsqrtFrom(n, r) == IF (r + 1) * (r + 1) > n THEN r ELSE IsqrtFrom(n, r + 1)

\* Vec2::length
Length(a) ==
    IF a.x = 0 THEN Abs(a.y)
    ELSE IF a.y = 0 THEN Abs(a.x)
    ELSE IsqrtFrom(Dot(a, a), 0)

\* Vec2::project_onto: other * self.dot(other) / other.length_squared()
project_onto(a, other) == VDiv(VScale(Dot(a, other), other), Dot(other, other))

\* Vec2::rotate by an angle of k/AngRes revolutions
Rotate(a, k) ==
    LET q == k % AngRes
    IN  IF q = 0 THEN a
        ELSE IF q = 1 THEN Vec2(-a.y, a.x)
        ELSE IF q = 2 THEN Vec2(-a.x, -a.y)
        ELSE Vec2(a.y, -a.x)

\* Transform::up().xy(): the local +Y axis turned by the rotation
up(xf) == Rotate(Vec2(0, 1), xf.rot)

\* Transform::rotate_z
rotate_z(xf, k) == [xf EXCEPT !.rot = (xf.rot + k) % AngRes]

\* Transform::default() / Transform::from_xyz
from_xyz(x, y) == [x |-> x, y |-> y, rot |-> 0]

----------------------------------------------------------------------------
(* Entities and the components that no system writes *)

Ents == {"Ship", "Sail"}

\* entities tagged Object
Object == {"Ship", "Sail"}

\* the Sail component sys_spawn_ship inserts: drag_coefficient 0.3 as a fraction
SpawnSail == [e \in {"Sail"} |-> [drag_num |-> 3, drag_den |-> 10]]

\* the ChildOf relationship sys_spawn_ship sets up: child -> parent
SpawnChildOf == [e \in {"Sail"} |-> "Ship"]

\* Constants::default(); the friction coefficient 0.01 as a fraction
ConstantsDefault ==
    [ sail_secs_per_rev |-> 3,
      wind_change_speed |-> 50,
      boat_turn_radius |-> 400,
      boat_friction_num |-> 1,
      boat_friction_den |-> 100,
      boat_mass |-> 1 ]

INFINITY == [inf |-> TRUE, r |-> 0]

Finite(r) == [inf |-> FALSE, r |-> r]

\* ButtonInput<KeyCode>: KeyR is just_released, the others are pressed
NoKeys ==
    [ KeyR |-> FALSE, ArrowLeft |-> FALSE, ArrowRight |-> FALSE,
      KeyS |-> FALSE, KeyW |-> FALSE, KeyA |-> FALSE, KeyD |-> FALSE ]

Chord(K) == [k \in DOMAIN NoKeys |-> k \in K]

\* key states drawn: no key, each key alone, and each pair of opposite keys
KeyStates ==
    { Chord({}), Chord({"KeyR"}),
      Chord({"ArrowLeft"}), Chord({"ArrowRight"}), Chord({"ArrowLeft", "ArrowRight"}),
      Chord({"KeyS"}), Chord({"KeyW"}), Chord({"KeyS", "KeyW"}),
      Chord({"KeyA"}), Chord({"KeyD"}), Chord({"KeyA", "KeyD"}) }

\* transform propagation: GlobalTransform of a child is parent * local
Propagate(T) ==
    [e \in DOMAIN T |->
        IF e \in DOMAIN ChildOf /\ ChildOf[e] \in DOMAIN T
        THEN LET p == T[ChildOf[e]]
                 o == Rotate(Vec2(T[e].x, T[e].y), p.rot)
             IN  [x |-> p.x + o.x, y |-> p.y + o.y, rot |-> (p.rot + T[e].rot) % AngRes]
        ELSE T[e]]

\* sys_spawn_ship: the Ship gets Transform::default() as a required component of Mesh2d
SpawnTransform == [e \in Ents |-> IF e = "Ship" THEN from_xyz(0, 0) ELSE from_xyz(0, 15)]

\* the velocities sys_spawn_ship inserts
SpawnVelocity == [e \in {"Ship"} |-> Vec2(0, 0)]

\* the state after Startup, for given component stores and a given environment
Startup(S, C, T, V, E) ==
    /\ Sail = S
    /\ ChildOf = C
    /\ Transform = T
    /\ GlobalTransform = Propagate(T)
    /\ Velocity = V
    /\ TurnRadius = [e \in {"Ship"} |-> Finite(200)]
    /\ InitialTransform = [e \in {"Ship"} |-> from_xyz(0, 0)]
    /\ Wind = Vec2(0, 30)
    /\ constants = ConstantsDefault
    /\ events_a = <<>>
    /\ events_b = <<>>
    /\ last_event_count = 0
    /\ keys = NoKeys
    /\ env = E
    /\ dt \in E.dts
    /\ frame = 1
    /\ ran = {}
    /\ lastSys = "startup"
    /\ resetActed = FALSE
    /\ resetCause = 0
    /\ resetDirty = FALSE
    /\ written = FALSE
    /\ writes = 0
    /\ resets = 0

Init ==
    Startup(SpawnSail, SpawnChildOf, SpawnTransform, SpawnVelocity,
            [steps |-> MaxSteps, dts |-> DtSet, keys |-> KeyStates])

----------------------------------------------------------------------------
(* The Update schedule *)

Systems ==
    { "sys_input", "sys_wind_physics", "sys_apply_velocity",
      "sys_circular_motion", "sys_friction_physics", "sys_reset_xf" }

\* (sys_wind_physics, sys_apply_velocity).chain(): the only declared ordering
ChainEdges == { <<"sys_wind_physics", "sys_apply_velocity">> }

\* steps taken so far
Steps == 7 * (frame - 1) + Cardinality(ran)

CanRun(s) ==
    /\ Steps < env.steps
    /\ s \notin ran
    /\ \A c \in ChainEdges : c[2] = s => c[1] \in ran

Ran(s) == ran' = ran \cup {s} /\ lastSys' = s

----------------------------------------------------------------------------
(* sys_input *)

\* rotate_speed * time.delta_secs(), with rotate_speed = 2*PI / sail_secs_per_rev
SailRotStep(d) == TDiv(AngRes * d, constants.sail_secs_per_rev * DtDen)

sail_needs_update(k) == k.ArrowLeft \/ k.ArrowRight

\* a variant in which opposite keys cancel  (compared with sail_rot under C7)
sail_rot_cancel(k, d) ==
    IF k.ArrowLeft /\ ~k.ArrowRight THEN SailRotStep(d)
    ELSE IF k.ArrowRight /\ ~k.ArrowLeft THEN -SailRotStep(d)
    ELSE 0

sail_rot(k, d) ==
    IF k.ArrowLeft THEN SailRotStep(d)
    ELSE IF k.ArrowRight THEN -SailRotStep(d)
    ELSE 0

\* for mut xf in q_sail.iter_mut() { xf.rotate_z(sail_rot) }
InputTransform(T, k, d) ==
    [e \in DOMAIN T |->
        IF sail_needs_update(k) /\ e \in DOMAIN Sail
        THEN rotate_z(T[e], sail_rot(k, d))
        ELSE T[e]]

wind_needs_update(k) == k.KeyS \/ k.KeyW

\* a variant whose delta lies along the x-axis
\* (compared with wind_delta under C20)
wind_delta_x(k, d) ==
    IF k.KeyS THEN Vec2(-TDiv(constants.wind_change_speed * d, DtDen), 0)
    ELSE IF k.KeyW THEN Vec2(TDiv(constants.wind_change_speed * d, DtDen), 0)
    ELSE ZERO

wind_delta(k, d) ==
    IF k.KeyS THEN Vec2(0, -TDiv(constants.wind_change_speed * d, DtDen))
    ELSE IF k.KeyW THEN Vec2(0, TDiv(constants.wind_change_speed * d, DtDen))
    ELSE ZERO

\* a variant with the x-axis keys of the commented-out block live
\* (compared with InputWind under C10)
InputWind_xkeys(W, k, d) ==
    IF k.KeyA THEN VAdd(W, Vec2(-TDiv(constants.wind_change_speed * d, DtDen), 0))
    ELSE IF k.KeyD THEN VAdd(W, Vec2(TDiv(constants.wind_change_speed * d, DtDen), 0))
    ELSE IF wind_needs_update(k) THEN VAdd(W, wind_delta(k, d))
    ELSE W

\* if wind_needs_update { wind.0 += wind_delta }
InputWind(W, k, d) == IF wind_needs_update(k) THEN VAdd(W, wind_delta(k, d)) ELSE W

\* a variant in which the two turn keys add up, so that both held give 0
\* (compared with turn_radius under C17)
turn_radius_sum(k) ==
    IF k.KeyA /\ k.KeyD THEN Finite(0)
    ELSE IF k.KeyA THEN Finite(constants.boat_turn_radius)
    ELSE IF k.KeyD THEN Finite(-constants.boat_turn_radius)
    ELSE INFINITY

turn_radius(k) ==
    IF k.KeyA THEN Finite(constants.boat_turn_radius)
    ELSE IF k.KeyD THEN Finite(-constants.boat_turn_radius)
    ELSE INFINITY

\* a variant that writes only while a turn key is held, so the last radius
\* sticks  (compared with InputTurnRadius under C8)
InputTurnRadius_sticky(TR, k) ==
    [e \in DOMAIN TR |-> IF k.KeyA \/ k.KeyD THEN turn_radius(k) ELSE TR[e]]

\* for mut tr in &mut q_turn { tr.0 = turn_radius }
InputTurnRadius(TR, k) == [e \in DOMAIN TR |-> turn_radius(k)]

\* a variant that also writes the event while KeyW is held
\* (compared with InputEvents under C15)
InputEvents_held(E, k) == IF k.KeyR \/ k.KeyW THEN Append(E, frame) ELSE E

\* if keys.just_released(KeyR) { evw_reset_xf.write(EventResetTransform) }
InputEvents(E, k) == IF k.KeyR THEN Append(E, frame) ELSE E

sys_input ==
    /\ CanRun("sys_input")
    /\ \E k \in env.keys :
        /\ keys' = k
        /\ events_b' = InputEvents(events_b, k)
        /\ written' = k.KeyR
        /\ writes' = Len(InputEvents(events_b, k)) - Len(events_b) + writes
        /\ Transform' = InputTransform(Transform, k, dt)
        /\ Wind' = InputWind(Wind, k, dt)
        /\ TurnRadius' = InputTurnRadius(TurnRadius, k)
    /\ Ran("sys_input")
    /\ UNCHANGED <<GlobalTransform, Velocity, InitialTransform, Sail, ChildOf,
                   constants, events_a, last_event_count, dt, frame, resetActed,
                   resetCause, resetDirty, resets, env>>

----------------------------------------------------------------------------
(* sys_wind_physics *)

\* q_boat: Query<(&mut Velocity, &Transform), With<Object>>
q_boat(V, T) == DOMAIN V \cap DOMAIN T \cap Object

\* q_sail: Query<(&Sail, &GlobalTransform, &ChildOf)>
q_sail(G) == DOMAIN Sail \cap DOMAIN G \cap DOMAIN ChildOf

\* a variant whose sail force leaves the drag coefficient out
\* (compared with WindPush under C13)
WindPush_nodrag(V, T, G, W, s, d, parent) ==
    LET sail_f == project_onto(VSub(W, V[parent]), up(G[s]))
        boat_f == project_onto(sail_f, up(T[parent]))
    IN  [V EXCEPT ![parent] =
             VAdd(V[parent], VDiv(VScale(d, boat_f), constants.boat_mass * DtDen))]

\* the loop body once the parent is resolved: the sail's push on its Velocity
WindPush(V, T, G, W, s, d, parent) ==
    LET boat_v == V[parent]
        sail_dir == up(G[s])
        boat_dir == up(T[parent])
        apparent_wind_v == VSub(W, boat_v)
        \* sail_f, boat_f and boat_a carry the denominator drag_den * boat_mass
        sail_f == VScale(Sail[s].drag_num, project_onto(apparent_wind_v, sail_dir))
        boat_f == project_onto(sail_f, boat_dir)
        boat_a == boat_f
        den == Sail[s].drag_den * constants.boat_mass * DtDen
    IN  [V EXCEPT ![parent] = VAdd(boat_v, VDiv(VScale(d, boat_a), den))]

\* a variant that takes the true wind for the apparent wind
\* (compared with WindOnSail under C12)
WindOnSail_truewind(V, T, G, W, s, d) ==
    IF ChildOf[s] \notin q_boat(V, T) THEN V
    ELSE [V EXCEPT ![ChildOf[s]] =
             VAdd(V[ChildOf[s]],
                  WindPush([V EXCEPT ![ChildOf[s]] = ZERO], T, G, W, s, d, ChildOf[s])[ChildOf[s]])]

\* a variant that hands the push of a sail without a boat to some boat
\* (compared with WindOnSail under C14)
WindOnSail_adopt(V, T, G, W, s, d) ==
    IF q_boat(V, T) = {} THEN V
    ELSE WindPush(V, T, G, W, s, d,
                  IF ChildOf[s] \in q_boat(V, T) THEN ChildOf[s]
                  ELSE CHOOSE b \in q_boat(V, T) : TRUE)

\* one iteration of the loop: the sail's push on its parent's Velocity, or
\* `continue` when the parent is no boat
WindOnSail(V, T, G, W, s, d) ==
    LET parent == ChildOf[s]
    IN  IF parent \notin q_boat(V, T) THEN V
        ELSE WindPush(V, T, G, W, s, d, parent)

RECURSIVE WindOnSails(_, _, _, _, _, _)
WindOnSails(V, T, G, W, S, d) ==
    IF S = {} THEN V
    ELSE LET s == CHOOSE e \in S : TRUE
         IN  WindOnSails(WindOnSail(V, T, G, W, s, d), T, G, W, S \ {s}, d)

sys_wind_physics ==
    /\ CanRun("sys_wind_physics")
    /\ Velocity' = WindOnSails(Velocity, Transform, GlobalTransform, Wind,
                               q_sail(GlobalTransform), dt)
    /\ Ran("sys_wind_physics")
    /\ UNCHANGED <<Transform, GlobalTransform, TurnRadius, InitialTransform, Wind,
                   constants, events_a, events_b, last_event_count, keys, dt, frame,
                   resetActed, resetCause, resetDirty, written, writes, resets,
                   Sail, ChildOf, env>>

----------------------------------------------------------------------------
(* sys_apply_velocity *)

\* transform.translation += time.delta_secs() * velocity.0.extend(0.0)
Translate(xf, v, d) ==
    [xf EXCEPT !.x = xf.x + TDiv(d * v.x, DtDen), !.y = xf.y + TDiv(d * v.y, DtDen)]

ApplyVelocity(T, V, d) ==
    [e \in DOMAIN T |-> IF e \in DOMAIN V THEN Translate(T[e], V[e], d) ELSE T[e]]

sys_apply_velocity ==
    /\ CanRun("sys_apply_velocity")
    /\ Transform' = ApplyVelocity(Transform, Velocity, dt)
    /\ Ran("sys_apply_velocity")
    /\ UNCHANGED <<GlobalTransform, Velocity, TurnRadius, InitialTransform, Wind,
                   constants, events_a, events_b, last_event_count, keys, dt, frame,
                   resetActed, resetCause, resetDirty, written, writes, resets,
                   Sail, ChildOf, env>>

----------------------------------------------------------------------------
(* sys_circular_motion *)

\* a variant that turns on the configured radius when none is set
\* (compared with dtheta under C9)
dtheta_default_radius(v, rad, d) ==
    TDiv(Length(VScale(d, v)) * AngRes,
         DtDen * (IF rad.inf THEN constants.boat_turn_radius ELSE rad.r))

\* dist / rad * 2 * PI, with dist = (v.0 * time.delta_secs()).length()
dtheta(v, rad, d) ==
    IF rad.inf THEN 0
    ELSE TDiv(Length(VScale(d, v)) * AngRes, DtDen * rad.r)

\* Query<(&TurnRadius, &mut Velocity, &mut Transform)>
q_object_circular(TR, V, T) == DOMAIN TR \cap DOMAIN V \cap DOMAIN T

CircularTransform(T, V, TR, d) ==
    [e \in DOMAIN T |->
        IF e \in q_object_circular(TR, V, T)
        THEN rotate_z(T[e], dtheta(V[e], TR[e], d))
        ELSE T[e]]

\* a variant that turns the ship and leaves its Velocity pointing where it did
\* (compared with CircularVelocity under C18)
CircularVelocity_straight(T, V, TR, d) == V

CircularVelocity(T, V, TR, d) ==
    [e \in DOMAIN V |->
        IF e \in q_object_circular(TR, V, T)
        THEN Rotate(V[e], dtheta(V[e], TR[e], d))
        ELSE V[e]]

sys_circular_motion ==
    /\ CanRun("sys_circular_motion")
    /\ Transform' = CircularTransform(Transform, Velocity, TurnRadius, dt)
    /\ Velocity' = CircularVelocity(Transform, Velocity, TurnRadius, dt)
    /\ Ran("sys_circular_motion")
    /\ UNCHANGED <<GlobalTransform, TurnRadius, InitialTransform, Wind, constants,
                   events_a, events_b, last_event_count, keys, dt, frame,
                   resetActed, resetCause, resetDirty, written, writes, resets,
                   Sail, ChildOf, env>>

----------------------------------------------------------------------------
(* sys_friction_physics *)

\* a variant with the sign of the force lost  (compared with Friction under C11)
Friction_push(v, d) ==
    LET f == VScale(constants.boat_friction_num * Length(v), v)
        den == constants.boat_friction_den * constants.boat_mass * DtDen
    IN  VAdd(v, VDiv(VScale(d, f), den))

\* f = -c * |v| * v;  v = v + f / boat_mass * dt
Friction(v, d) ==
    LET f == VScale(-constants.boat_friction_num * Length(v), v)
        den == constants.boat_friction_den * constants.boat_mass * DtDen
    IN  VAdd(v, VDiv(VScale(d, f), den))

\* Query<&mut Velocity, With<Object>>
FrictionVelocity(V, d) ==
    [e \in DOMAIN V |-> IF e \in Object THEN Friction(V[e], d) ELSE V[e]]

sys_friction_physics ==
    /\ CanRun("sys_friction_physics")
    /\ Velocity' = FrictionVelocity(Velocity, dt)
    /\ Ran("sys_friction_physics")
    /\ UNCHANGED <<Transform, GlobalTransform, TurnRadius, InitialTransform, Wind,
                   constants, events_a, events_b, last_event_count, keys, dt, frame,
                   resetActed, resetCause, resetDirty, written, writes, resets,
                   Sail, ChildOf, env>>

----------------------------------------------------------------------------
(* sys_reset_xf and the event buffers *)

\* the events a reader can still see, oldest first
AllEvents == events_a \o events_b

\* EventReader::len: the events the reader has not read
Unread == Len(AllEvents) - last_event_count

\* a variant that looks at the next event and leaves it unread
\* (compared with ReadNext under C19)
ReadNext_peek(n) == n

\* ev_reset_xf.read().next().is_some(): one event is taken if there is one
ReadNext(n) == IF Unread > 0 THEN n + 1 ELSE n

\* Query<(&mut Transform, Option<&mut Velocity>, &InitialTransform)>
q_transform(T, I) == DOMAIN T \cap DOMAIN I

\* *xf = init_xf.0
ResetTransform(T, I) ==
    [e \in DOMAIN T |-> IF e \in q_transform(T, I) THEN I[e] ELSE T[e]]

\* a variant that restores the pose and keeps the motion
\* (compared with ResetVelocity under C1)
ResetVelocity_keep(V, T, I) == V

\* if let Some(mut v) = velocity { *v = Velocity(Vec2::ZERO) }
ResetVelocity(V, T, I) ==
    [e \in DOMAIN V |-> IF e \in q_transform(T, I) THEN ZERO ELSE V[e]]

sys_reset_xf ==
    /\ CanRun("sys_reset_xf")
    /\ last_event_count' = ReadNext(last_event_count)
    /\ IF Unread > 0
       THEN /\ Transform' = ResetTransform(Transform, InitialTransform)
            /\ Velocity' = ResetVelocity(Velocity, Transform, InitialTransform)
            /\ resetActed' = TRUE
            /\ resets' = resets + 1
            /\ resetCause' = AllEvents[last_event_count + 1]
            /\ resetDirty' = (  Transform # ResetTransform(Transform, InitialTransform)
                             \/ Velocity # ResetVelocity(Velocity, Transform, InitialTransform))
       ELSE UNCHANGED <<Transform, Velocity, resetActed, resetCause, resetDirty, resets>>
    /\ Ran("sys_reset_xf")
    /\ UNCHANGED <<GlobalTransform, TurnRadius, InitialTransform, Wind, constants,
                   events_a, events_b, keys, dt, frame, written, writes, Sail,
                   ChildOf, env>>

----------------------------------------------------------------------------
(* Frame boundary: PostUpdate of this frame, First of the next *)

Max(a, b) == IF a > b THEN a ELSE b

WithinBounds ==
    /\ \A e \in DOMAIN Velocity :
          Abs(Velocity[e].x) <= MaxSpeed /\ Abs(Velocity[e].y) <= MaxSpeed
    /\ Abs(Wind.x) <= MaxWind /\ Abs(Wind.y) <= MaxWind

\* Events::update: the older buffer is dropped, the newer becomes the older;
\* a reader's cursor is clamped to the oldest event still held
NextFrame ==
    /\ ran = Systems
    /\ Steps < env.steps
    /\ WithinBounds
    /\ GlobalTransform' = Propagate(Transform)
    /\ events_a' = events_b
    /\ events_b' = <<>>
    /\ last_event_count' = Max(0, last_event_count - Len(events_a))
    /\ dt' \in env.dts
    /\ frame' = frame + 1
    /\ ran' = {}
    /\ lastSys' = "frame"
    /\ keys' = NoKeys
    /\ resetActed' = FALSE
    /\ resetCause' = 0
    /\ resetDirty' = FALSE
    /\ written' = FALSE
    /\ UNCHANGED <<Transform, Velocity, TurnRadius, InitialTransform, Wind, constants,
                   writes, resets, Sail, ChildOf, env>>

Next ==
    \/ sys_input
    \/ sys_wind_physics
    \/ sys_apply_velocity
    \/ sys_circular_motion
    \/ sys_friction_physics
    \/ sys_reset_xf
    \/ NextFrame

Spec == Init /\ [][Next]_vars

----------------------------------------------------------------------------
(* A second world for sys_wind_physics: component values the inspector can   *)
(* set and entities the app does not spawn itself.  The Sail's                *)
(* drag_coefficient is 0 or 0.3, the Ship starts at rest or under way, and a  *)
(* second sail, "Orphan", hangs on "Dock", an entity with a Transform and no  *)
(* Velocity.                                                                  *)

SailsDrag == {0, 3}

SailsVelocity == {Vec2(0, 0), Vec2(0, 10)}

SailsTransform ==
    [e \in {"Ship", "Sail", "Orphan", "Dock"} |->
        IF e \in {"Sail", "Orphan"} THEN from_xyz(0, 15) ELSE from_xyz(0, 0)]

InitSails ==
    \E dn \in SailsDrag, v \in SailsVelocity :
        Startup([e \in {"Sail", "Orphan"} |->
                    [drag_num |-> IF e = "Sail" THEN dn ELSE 3, drag_den |-> 10]],
                [e \in {"Sail", "Orphan"} |-> IF e = "Sail" THEN "Ship" ELSE "Dock"],
                SailsTransform,
                [e \in {"Ship"} |-> v],
                [steps |-> MaxSteps, dts |-> DtSet, keys |-> KeyStates])

SpecSails == InitSails /\ [][Next]_vars

----------------------------------------------------------------------------
(* The spawned world over a longer run in which KeyR is the only key played  *)
(* and a frame lasts 3/4 s or 4 s: the life of the reset events.             *)

EventKeys == {Chord({}), Chord({"KeyR"})}

EventDts == {3, 16}

InitEvents ==
    Startup(SpawnSail, SpawnChildOf, SpawnTransform, SpawnVelocity,
            [steps |-> MaxEventSteps, dts |-> EventDts, keys |-> EventKeys])

SpecEvents == InitEvents /\ [][Next]_vars

----------------------------------------------------------------------------
(* Vocabulary of the properties *)

\* the step taken is system s
StepOf(s) == s \notin ran /\ s \in ran'

\* the state is the one sys_reset_xf left behind after overwriting
JustReset == lastSys = "sys_reset_xf" /\ resetActed

\* every entity with an InitialTransform is back at it, at rest
Restored ==
    \A e \in DOMAIN InitialTransform :
        /\ Transform[e] = InitialTransform[e]
        /\ e \in DOMAIN Velocity => Velocity[e] = ZERO

Physics ==
    { "sys_wind_physics", "sys_circular_motion", "sys_friction_physics",
      "sys_apply_velocity" }

\* the order spec section 5 documents
DocumentedOrder ==
    << "sys_input", "sys_wind_physics", "sys_circular_motion",
       "sys_friction_physics", "sys_apply_velocity", "sys_reset_xf" >>

----------------------------------------------------------------------------
(* C1..C10 *)

\* C1: in the state right after sys_reset_xf ran with an unread event, every
\* entity holding an InitialTransform has its Transform equal to the snapshot
\* and, if it has a Velocity, that Velocity is zero.
C1_ResetRoundTrip == JustReset => Restored

\* C1 witness: a reset that undid movement made by the physics systems
C1_Witness ==
    /\ JustReset /\ resetDirty
    /\ Physics \subseteq ran
    /\ Restored

\* C2 (as claimed): a frame's reset action comes after the four physics systems
\* of the frame, so at the end of the frame the entities are still restored.
C2_ResetAfterPhysics ==
    resetActed => /\ Physics \subseteq ran
                  /\ ran = Systems => Restored

\* C3 (as claimed): within a frame no system runs before one that precedes it
\* in the documented order.
C3_TotalOrder ==
    \A i, j \in 1..Len(DocumentedOrder) :
        (i < j /\ DocumentedOrder[j] \in ran) => DocumentedOrder[i] \in ran

\* C4 (as claimed): at the end of every frame no event is unread, and a reset
\* action is never caused by an event of an earlier frame.
C4_NoCarryOver ==
    /\ ran = Systems => Unread = 0
    /\ resetActed => resetCause = frame

\* C5 (as claimed): one run of sys_reset_xf takes all the queued events at
\* once, so right after it has run nothing is left unread.
C5_Collapse == lastSys = "sys_reset_xf" => Unread = 0

\* C6 (as claimed): right after a reset action the Ship's Transform and the
\* Sail's Transform both equal their spawn values.
C6_ShipAndSailRestored ==
    JustReset => \A e \in {"Ship", "Sail"} : Transform[e] = SpawnTransform[e]

\* the sail turn of a frame in angle units: rate * dt, rate = 2*PI / sail_secs_per_rev
RateDt == TDiv(AngRes * dt, constants.sail_secs_per_rev * DtDen)

\* the Sail's heading moved by a from the old state to the new
SailTurnedBy(a) ==
    \A e \in DOMAIN Sail \cap DOMAIN Transform :
        Transform'[e] = [Transform[e] EXCEPT !.rot = (Transform[e].rot + a) % AngRes]

\* C7 (amended): in sys_input the sail turns by +rate*dt when sail-left is held
\* (also when sail-right is held with it), by -rate*dt when only sail-right is
\* held, and not at all when neither is held.
C7_SailRotation ==
    [][StepOf("sys_input") =>
          /\ keys'.ArrowLeft => SailTurnedBy(RateDt)
          /\ (keys'.ArrowRight /\ ~keys'.ArrowLeft) => SailTurnedBy(-RateDt)
          /\ (~keys'.ArrowLeft /\ ~keys'.ArrowRight) => SailTurnedBy(0)]_vars

\* C7 (as claimed): ... and not at all when both are held or neither is.
C7_SailRotationCancels ==
    [][StepOf("sys_input") =>
          /\ (keys'.ArrowLeft /\ ~keys'.ArrowRight) => SailTurnedBy(RateDt)
          /\ (keys'.ArrowRight /\ ~keys'.ArrowLeft) => SailTurnedBy(-RateDt)
          /\ (keys'.ArrowLeft = keys'.ArrowRight) => SailTurnedBy(0)]_vars

\* C7 witness: sys_input ran with both sail keys held and the sail has turned
C7_Witness ==
    /\ lastSys = "sys_input"
    /\ keys.ArrowLeft /\ keys.ArrowRight
    /\ RateDt % AngRes # 0
    /\ Transform["Sail"].rot = RateDt % AngRes

\* the radius the key state asks for: turn-left first, then turn-right, else none
AskedRadius ==
    IF keys.KeyA THEN Finite(constants.boat_turn_radius)
    ELSE IF keys.KeyD THEN Finite(-constants.boat_turn_radius)
    ELSE INFINITY

\* C8: once sys_input has run in a frame, every TurnRadius is the value the
\* frame's key state asks for, whatever it was before.
C8_TurnRadiusAbsolute ==
    "sys_input" \in ran => \A e \in DOMAIN TurnRadius : TurnRadius[e] = AskedRadius

\* C8 witness: a frame with no turn key after a frame in which the ship turned
C8_Witness ==
    /\ lastSys = "sys_input"
    /\ frame > 1
    /\ ~keys.KeyA /\ ~keys.KeyD
    /\ TurnRadius["Ship"] = INFINITY
    /\ Transform["Ship"].rot # 0

\* C9: sys_circular_motion leaves the Transform and the Velocity of every
\* entity with an infinite TurnRadius unchanged.
C9_InfiniteRadius ==
    [][StepOf("sys_circular_motion") =>
          \A e \in DOMAIN TurnRadius :
              TurnRadius[e].inf =>
                  /\ e \in DOMAIN Transform => Transform'[e] = Transform[e]
                  /\ e \in DOMAIN Velocity => Velocity'[e] = Velocity[e]]_vars

\* C9 witness: sys_circular_motion ran on a moving ship with no radius set, in
\* a frame long enough for a finite radius to have turned it
C9_Witness ==
    /\ lastSys = "sys_circular_motion"
    /\ TurnRadius["Ship"].inf
    /\ Length(VScale(dt, Velocity["Ship"])) * AngRes >= DtDen * constants.boat_turn_radius

\* C10: no system but sys_input changes Wind, nothing changes Constants, and
\* sys_input leaves Wind alone when neither wind key is held.
C10_WindWriters ==
    [][/\ constants' = constants
       /\ ~StepOf("sys_input") => Wind' = Wind
       /\ (StepOf("sys_input") /\ ~keys'.KeyS /\ ~keys'.KeyW) => Wind' = Wind]_vars

\* C10 witness: sys_input ran with a key other than the wind keys held, on a
\* Wind an earlier frame had changed
C10_Witness ==
    /\ lastSys = "sys_input"
    /\ keys.KeyA
    /\ dt > 0
    /\ Wind # Vec2(0, 30)

----------------------------------------------------------------------------
(* C11..C20 *)

\* friction_coefficient * |v| * dt / mass as the fraction FrictionNum(v) / FrictionDen
FrictionNum(v) == constants.boat_friction_num * Length(v) * dt

FrictionDen == constants.boat_friction_den * constants.boat_mass * DtDen

Along(a, u) == Dot(a, Vec2(-u.y, u.x)) = 0

\* the Wind, the heading of the sail's ship and the heading of the sail lie
\* along one axis
Aligned(s) ==
    \E u \in {Vec2(1, 0), Vec2(0, 1)} :
        /\ Along(Wind, u)
        /\ Along(up(Transform[ChildOf[s]]), u)
        /\ Along(up(GlobalTransform[s]), u)

\* C12: with Wind, Ship heading and Sail heading along one axis, a step of
\* sys_wind_physics adds drag_coefficient * (Wind - Velocity) * dt / mass to the
\* Ship's Velocity; Wind (0,30) on the ship at rest gives (0,9) in one second.
C12_AlignedWind ==
    [][/\ (constants = ConstantsDefault /\ Sail = SpawnSail /\ ChildOf = SpawnChildOf) =>
            WindOnSail([e \in {"Ship"} |-> ZERO], SpawnTransform, Propagate(SpawnTransform),
                       Vec2(0, 30), "Sail", DtDen)["Ship"] = Vec2(0, 9)
       /\ StepOf("sys_wind_physics") =>
            \A s \in q_sail(GlobalTransform) :
                (ChildOf[s] \in q_boat(Velocity, Transform) /\ Aligned(s)) =>
                    Velocity'[ChildOf[s]] =
                        VAdd(Velocity[ChildOf[s]],
                             VDiv(VScale(Sail[s].drag_num * dt,
                                         VSub(Wind, Velocity[ChildOf[s]])),
                                  Sail[s].drag_den * constants.boat_mass * DtDen))]_vars

\* C12 witness: the ship left frame 1 at (0,6), heading and sail along the
\* wind, and sys_wind_physics, first to run in frame 2, pushed it to (0,11)
C12_Witness ==
    /\ lastSys = "sys_wind_physics"
    /\ frame = 2 /\ ran = {"sys_wind_physics"}
    /\ dt = 3
    /\ Wind = Vec2(0, 30)
    /\ Transform["Ship"].rot = 0 /\ GlobalTransform["Sail"].rot = 0
    /\ Velocity["Ship"] = Vec2(0, 11)

\* the sails of sys_wind_physics's query that hang on the boat b
SailsOf(b) == {s \in q_sail(GlobalTransform) : ChildOf[s] = b}

\* C13: a step of sys_wind_physics leaves the Velocity of a boat unchanged
\* when every sail on it has drag_coefficient 0, whatever the Wind, the
\* Velocity and the two headings are.
C13_ZeroDrag ==
    [][StepOf("sys_wind_physics") =>
          \A b \in q_boat(Velocity, Transform) :
              (SailsOf(b) # {} /\ \A s \in SailsOf(b) : Sail[s].drag_num = 0) =>
                  Velocity'[b] = Velocity[b]]_vars

\* C13 witness: sys_wind_physics has just run on a sail of drag 0 set along
\* the ship's heading, the ship under way in a changed Wind
C13_Witness ==
    /\ lastSys = "sys_wind_physics"
    /\ frame = 2
    /\ Sail["Sail"].drag_num = 0
    /\ dt > 0
    /\ Velocity["Ship"] # ZERO
    /\ Wind # Vec2(0, 30) /\ Wind # Velocity["Ship"]
    /\ GlobalTransform["Sail"].rot = Transform["Ship"].rot

\* the sails whose parent is a boat
Resolved == {s \in q_sail(GlobalTransform) : ChildOf[s] \in q_boat(Velocity, Transform)}

\* C14: whenever sys_wind_physics is due its loop runs to the end and yields
\* a Velocity for every boat, and the step changes the Velocities exactly as
\* the sails with a boat for a parent do: a sail whose parent is no boat
\* changes nothing and the other sails still push.
C14_OrphanSkipped ==
    [][/\ CanRun("sys_wind_physics") =>
            DOMAIN WindOnSails(Velocity, Transform, GlobalTransform, Wind,
                               q_sail(GlobalTransform), dt) = DOMAIN Velocity
       /\ StepOf("sys_wind_physics") =>
            /\ Velocity' = WindOnSails(Velocity, Transform, GlobalTransform, Wind,
                                       Resolved, dt)
            /\ \A b \in q_boat(Velocity, Transform) :
                   SailsOf(b) = {} => Velocity'[b] = Velocity[b]
            /\ \A b \in q_boat(Velocity, Transform) :
                   \A s \in SailsOf(b) :
                       SailsOf(b) = {s} =>
                           Velocity'[b] = WindPush(Velocity, Transform, GlobalTransform,
                                                   Wind, s, dt, b)[b]
            /\ DOMAIN Velocity' = DOMAIN Velocity]_vars

\* C14 witness: with the Orphan on the Dock in the query, sys_wind_physics,
\* first to run, has pushed the Ship from rest through the Sail
C14_Witness ==
    /\ lastSys = "sys_wind_physics"
    /\ frame = 1 /\ ran = {"sys_wind_physics"}
    /\ "Orphan" \in q_sail(GlobalTransform)
    /\ ChildOf["Orphan"] \notin q_boat(Velocity, Transform)
    /\ Sail["Sail"].drag_num = 3
    /\ Velocity["Ship"] = Vec2(0, 6)

\* C15: sys_input appends one event to the buffer when KeyR was just released
\* in its frame and none otherwise, whatever other keys are held; no other
\* system appends an event; sys_reset_xf acts only on an event it had not
\* read; and as long as no event was ever written a step of sys_reset_xf
\* leaves every Transform and Velocity as it was.
C15_EdgeTriggered ==
    [][/\ StepOf("sys_input") =>
            /\ events_b' = IF keys'.KeyR THEN Append(events_b, frame) ELSE events_b
            /\ Len(events_b') <= 1
            /\ events_a' = events_a
       /\ (\E s \in Systems \ {"sys_input"} : StepOf(s)) =>
            events_a' = events_a /\ events_b' = events_b
       /\ StepOf("sys_reset_xf") =>
            /\ (Transform' # Transform \/ Velocity' # Velocity \/ resets' # resets)
                   => (Unread > 0 /\ writes > 0)
            /\ writes = 0 => (Transform' = Transform /\ Velocity' = Velocity)]_vars

\* C15 witness: KeyR was released in frame 1 and again in frame 2; each
\* sys_input wrote one event, and the Ship was not reset before the first
C15_Witness ==
    /\ lastSys = "sys_input"
    /\ frame = 2
    /\ keys.KeyR
    /\ events_a = <<1>> /\ events_b = <<2>>
    /\ writes = 2
    /\ Velocity["Ship"] # ZERO

\* C17: with boat_turn_radius > 0 every TurnRadius is infinite or finite and
\* not zero, from the value given at spawn onwards, so the divisor of dtheta
\* in sys_circular_motion is never zero.
C17_RadiusNeverZero ==
    constants.boat_turn_radius > 0 =>
        \A e \in DOMAIN TurnRadius :
            /\ TurnRadius[e].inf \/ TurnRadius[e].r # 0
            /\ ~TurnRadius[e].inf => DtDen * TurnRadius[e].r # 0

\* C17 witness: sys_circular_motion has run on the radius given at spawn,
\* before sys_input wrote one, with the Ship already under way
C17_Witness ==
    /\ lastSys = "sys_circular_motion"
    /\ "sys_input" \notin ran /\ frame = 1
    /\ TurnRadius["Ship"] = Finite(200)
    /\ Velocity["Ship"] # ZERO

\* the component of a across the axis u
Cross(a, u) == a.x * u.y - a.y * u.x

\* C18: at every system boundary, in every order of the systems, the Ship's
\* Velocity is zero or lies along the Ship's heading axis.
C18_NoSideSlip ==
    \A b \in q_boat(Velocity, Transform) :
        Cross(Velocity[b], up(Transform[b])) = 0

\* C18 witness: sys_circular_motion has turned the Ship a quarter or more off
\* its spawn heading while it is under way
C18_Witness ==
    /\ lastSys = "sys_circular_motion"
    /\ Transform["Ship"].rot # 0
    /\ Velocity["Ship"] # ZERO

\* C20: the x-component of Wind is 0, its value at startup, in every state.
C20_WindXZero == Wind.x = 0

\* C20 witness: sys_input has changed the Wind in two frames, down then up
C20_Witness ==
    /\ lastSys = "sys_input"
    /\ frame = 2
    /\ keys.KeyW /\ dt > 0
    /\ Wind.y < 30

----------------------------------------------------------------------------
(* The life of a reset event, in SpecEvents *)

\* the frames in which the unread events were written
UnreadStamps == {AllEvents[i] : i \in (last_event_count + 1)..Len(AllEvents)}

\* C16 (as claimed): no event is acted on twice, and once a reset action has
\* been taken, sys_reset_xf changes no Transform and no Velocity in a later
\* frame in which sys_input writes no event.
C16_SinglePulse ==
    /\ resets <= writes
    /\ (resetActed /\ resets >= 2 /\ "sys_input" \in ran /\ ~written) => ~resetDirty

\* C19: in every order of the systems each event written is acted on once or
\* is still unread, none is dropped unread; an unread event was written in
\* this frame or the one before, and in this frame once sys_reset_xf has run;
\* so every reset action answers an event of its frame or the one before.
C19_BoundedResponse ==
    /\ 0 <= last_event_count /\ last_event_count <= Len(AllEvents)
    /\ resets + Unread = writes
    /\ UnreadStamps \subseteq {frame - 1, frame}
    /\ "sys_reset_xf" \in ran => UnreadStamps \subseteq {frame}
    /\ resetActed => resetCause \in {frame - 1, frame}

\* C19 witness: sys_reset_xf ran before sys_input in frames 1 and 2 and KeyR
\* was released in both; the event of frame 2 is answered in frame 3
C19_Witness ==
    /\ lastSys = "sys_reset_xf"
    /\ frame = 3
    /\ resetActed /\ resetCause = 2
    /\ resets = 2 /\ writes = 2
    /\ Unread = 0

====
